---------------------------- MODULE Spec2Model ----------------------------
(***************************************************************************)
(* JournalClubAssistant: config -> CrossRef fetch (per journal, cursor     *)
(* pagination) -> keyword filter -> interactive review -> export.          *)
(*                                                                         *)
(* Text is modelled as a sequence of one-character strings, so that        *)
(* substring search, case folding, tag stripping and escaping are computed *)
(* character by character as the Python code computes them.                *)
(***************************************************************************)
EXTENDS Integers, Sequences, FiniteSets, TLC

VARIABLES
    pc,            \* position of main(): load_config, fetch, filter, review, save, done
    raw,           \* the configuration file as yaml.safe_load sees it
    args,          \* parsed command line: [no_review, output]
    config,        \* the Config built by Config.from_yaml (NoConfig before / on failure)
    config_error,  \* "" or the exception class from_yaml raised
    exit_status,   \* -1 while running, else the process exit status
    jIdx,          \* main(): index of the journal being fetched
    all_papers,    \* main(): all_papers
    max_results,   \* fetch_recent_papers: max_results
    cursor,        \* fetch_recent_papers: params["cursor"]
    papers,        \* fetch_recent_papers: papers
    fpc,           \* fetch_recent_papers: "idle", "while" (loop head), "break" (loop left)
    requests,      \* every HTTP GET issued so far: [issn, cursor, rows]
    served,        \* responses received for the journal being fetched
    fetched,       \* per journal, in order: what fetch_recent_papers returned and why
    filtered,      \* main(): filtered
    rIdx,          \* _interactive_review: enumerate index i (1-based)
    accepted,      \* _interactive_review: accepted
    decisions,     \* the operator's answers so far, in order
    final_papers,  \* main(): final_papers
    files          \* files written so far: [format, lines/rows]

vars == << pc, raw, args, config, config_error, exit_status, jIdx, all_papers,
           max_results, cursor, papers, fpc, requests, served, fetched,
           filtered, rIdx, accepted, decisions, final_papers, files >>

---------------------------------------------------------------------------
(* Text helpers (Python str operations used by the code)                   *)

Whitespace == {" ", "\t", "\n"}

Alphabet == <<"A","B","C","D","E","F","G","H","I","J","K","L","M",
             "N","O","P","Q","R","S","T","U","V","W","X","Y","Z">>
AlphabetLower == <<"a","b","c","d","e","f","g","h","i","j","k","l","m",
                  "n","o","p","q","r","s","t","u","v","w","x","y","z">>

UpperAZ == {Alphabet[i] : i \in 1..26}

\* str.lower() on one character
LowerChar(c) ==
    IF c \in UpperAZ
    THEN AlphabetLower[CHOOSE i \in 1..26 : Alphabet[i] = c]
    ELSE c

\* str.lower()
Lower(s) == [i \in 1..Len(s) |-> LowerChar(s[i])]

\* Python `needle in hay` for str: some offset at which needle occurs
Contains(needle, hay) ==
    \E off \in 0..(Len(hay) - Len(needle)) :
        \A i \in 1..Len(needle) : hay[off + i] = needle[i]

\* str.strip(): drop leading and trailing whitespace
Strip(s) ==
    LET idx == {i \in 1..Len(s) : s[i] \notin Whitespace}
    IN  IF idx = {} THEN <<>>
        ELSE LET lo == CHOOSE i \in idx : \A j \in idx : i <= j
                 hi == CHOOSE i \in idx : \A j \in idx : i >= j
             IN  SubSeq(s, lo, hi)

\* position of the first ">" after position i, 0 if none
FirstClose(s, i) ==
    LET js == {j \in (i+1)..Len(s) : s[j] = ">"}
    IN  IF js = {} THEN 0 ELSE CHOOSE j \in js : \A k \in js : j <= k

\* re.sub(r"<[^>]+>", repl, s): a tag is "<", one or more non-">" characters, ">"
\* (the scan goes from one tag to the next: the text between two tags is copied)
RECURSIVE SubTags(_, _, _)
SubTags(s, i, repl) ==
    LET opens == {p \in i..Len(s) : s[p] = "<" /\ FirstClose(s, p) > p + 1}
    IN  IF opens = {} THEN SubSeq(s, i, Len(s))
        ELSE LET p == CHOOSE q \in opens : \A r \in opens : q <= r
             IN  SubSeq(s, i, p - 1) \o repl \o SubTags(s, FirstClose(s, p) + 1, repl)

\* re.sub(r"\s+", " ", s): every run of whitespace becomes one space
\* (the scan goes from one run to the next: the text between two runs is copied)
RECURSIVE CollapseWs(_, _)
CollapseWs(s, i) ==
    LET ws == {p \in i..Len(s) : s[p] \in Whitespace}
    IN  IF ws = {} THEN SubSeq(s, i, Len(s))
        ELSE LET p == CHOOSE q \in ws : \A r \in ws : q <= r
                 rest == {q \in (p + 1)..Len(s) : s[q] \notin Whitespace}
                 e == IF rest = {} THEN Len(s) + 1
                      ELSE CHOOSE q \in rest : \A r \in rest : q <= r
             IN  SubSeq(s, i, p - 1) \o <<" ">> \o CollapseWs(s, e)

\* str.replace("|", "\\|")
RECURSIVE EscapePipes(_)
EscapePipes(s) ==
    IF s = <<>> THEN <<>>
    ELSE (IF Head(s) = "|" THEN <<"\\", "|">> ELSE <<Head(s)>>) \o EscapePipes(Tail(s))

\* sep.join(parts)
RECURSIVE Join(_, _)
Join(sep, parts) ==
    IF parts = <<>> THEN <<>>
    ELSE IF Len(parts) = 1 THEN parts[1]
    ELSE parts[1] \o sep \o Join(sep, Tail(parts))

---------------------------------------------------------------------------
(* summarizer.py                                                           *)

\* Python None where a str is expected (a JSON null, a missing value): a value
\* that is no text and differs from every text
None == [i \in {0} |-> "None"]

\* `not text` for an Optional[str]: None and "" are falsy
Falsy(text) == text = None \/ text = <<>>

strip_html(text) ==
    IF Falsy(text) THEN <<>>
    ELSE Strip(CollapseWs(SubTags(text, 1, <<" ">>), 1))

NoAbstract ==
    <<"N","o"," ","a","b","s","t","r","a","c","t"," ",
      "a","v","a","i","l","a","b","l","e",".">>

SummaryMaxLen == 300

Terminators == {".", "!", "?"}

\* re.split(r'(?<=[.!?])\s+(?=[A-Z])', clean, maxsplit=1)[0]: the text before the
\* first whitespace run that follows a terminator and is followed by A-Z
FirstSplit(clean) ==
    LET cut == {i \in 2..Len(clean) :
                  /\ clean[i] \in Whitespace
                  /\ clean[i-1] \in Terminators
                  /\ \E j \in i..(Len(clean) - 1) :
                        /\ \A k \in i..j : clean[k] \in Whitespace
                        /\ clean[j+1] \in UpperAZ}
    IN  IF cut = {} THEN clean
        ELSE SubSeq(clean, 1, (CHOOSE i \in cut : \A j \in cut : i <= j) - 1)

\* a summary whose missing final punctuation is not added
extract_summary_NoFinalStop(abstract) ==
    IF Falsy(abstract) \/ Strip(abstract) = <<>> THEN NoAbstract
    ELSE LET clean == strip_html(abstract)
         IN  IF clean = <<>> THEN NoAbstract
             ELSE LET first == Strip(FirstSplit(clean))
                  IN  IF Len(first) > SummaryMaxLen
                      THEN SubSeq(first, 1, SummaryMaxLen - 3) \o <<".", ".", ".">>
                      ELSE first

\* lines 26-50
extract_summary(abstract) ==
    IF Falsy(abstract) \/ Strip(abstract) = <<>> THEN NoAbstract
    ELSE LET clean == strip_html(abstract)
         IN  IF clean = <<>> THEN NoAbstract
             ELSE LET first == Strip(FirstSplit(clean))
                      punct == IF first # <<>> /\ first[Len(first)] \notin Terminators
                               THEN first \o <<".">>
                               ELSE first
                  IN  IF Len(punct) > SummaryMaxLen
                      THEN SubSeq(punct, 1, SummaryMaxLen - 3) \o <<".", ".", ".">>
                      ELSE punct

---------------------------------------------------------------------------
(* filter.py                                                               *)

\* FilteredPaper(paper=p): matched_keywords defaults to []
FilteredPaper(p, matched) == [paper |-> p, matched_keywords |-> matched]

\* a filter that compares without folding case
KeywordHits_CaseSensitive(kw, paper) ==
    \/ Contains(kw, paper.title)
    \/ Contains(kw, strip_html(paper.abstract))

\* line 42: the test for one keyword
KeywordHits(kw, paper) ==
    \/ Contains(Lower(kw), Lower(paper.title))
    \/ Contains(Lower(kw), Lower(strip_html(paper.abstract)))

\* a filter that records the first keyword that hits and stops
RECURSIVE MatchedKeywords_FirstOnly(_, _)
MatchedKeywords_FirstOnly(keywords, paper) ==
    IF keywords = <<>> THEN <<>>
    ELSE IF KeywordHits(Head(keywords), paper) THEN <<Head(keywords)>>
    ELSE MatchedKeywords_FirstOnly(Tail(keywords), paper)

\* lines 40-43: the keywords that hit, in configured order
RECURSIVE MatchedKeywords(_, _)
MatchedKeywords(keywords, paper) ==
    IF keywords = <<>> THEN <<>>
    ELSE (IF KeywordHits(Head(keywords), paper) THEN <<Head(keywords)>> ELSE <<>>)
         \o MatchedKeywords(Tail(keywords), paper)

\* lines 36-46: the loop over papers
RECURSIVE FilterLoop(_, _)
FilterLoop(ps, keywords) ==
    IF ps = <<>> THEN <<>>
    ELSE LET matched == MatchedKeywords(keywords, Head(ps))
         IN  (IF matched # <<>> THEN <<FilteredPaper(Head(ps), matched)>> ELSE <<>>)
             \o FilterLoop(Tail(ps), keywords)

filter_papers(ps, keywords) ==
    IF keywords = <<>>
    THEN [i \in 1..Len(ps) |-> FilteredPaper(ps[i], <<>>)]
    ELSE FilterLoop(ps, keywords)

---------------------------------------------------------------------------
(* config.py                                                               *)

NoConfig == [journals |-> <<>>, keywords |-> <<>>, search_days |-> 0, email |-> <<>>]

DefaultSearchDays == 30

\* lines 41-45: the journals loop; "ValueError" as soon as an entry lacks a key
RECURSIVE ParseJournals(_)
ParseJournals(entries) ==
    IF entries = <<>> THEN [error |-> "", journals |-> <<>>]
    ELSE LET j == Head(entries)
         IN  IF ~j.has_name \/ ~j.has_issn
             THEN [error |-> "ValueError", journals |-> <<>>]
             ELSE LET rest == ParseJournals(Tail(entries))
                  IN  IF rest.error # "" THEN rest
                      ELSE [error |-> "",
                            journals |-> <<[name |-> j.name, issn |-> j.issn]>>
                                         \o rest.journals]

\* line 56: [kw.strip() for kw in keywords if kw.strip()]
RECURSIVE StripKeywords(_)
StripKeywords(kws) ==
    IF kws = <<>> THEN <<>>
    ELSE (IF Strip(Head(kws)) # <<>> THEN <<Strip(Head(kws))>> ELSE <<>>)
         \o StripKeywords(Tail(kws))

\* line 51: the test that guards "At least one keyword must be configured"
KeywordsMissing(keywords) == keywords = <<>>

\* Config.from_yaml: [error |-> "" or the exception raised, config |-> Config]
from_yaml(r) ==
    IF ~r.exists THEN [error |-> "FileNotFoundError", config |-> NoConfig]
    ELSE IF r.empty THEN [error |-> "ValueError", config |-> NoConfig]
    ELSE LET js == ParseJournals(r.journals)
         IN  IF js.error # "" THEN [error |-> js.error, config |-> NoConfig]
             ELSE IF js.journals = <<>> THEN [error |-> "ValueError", config |-> NoConfig]
             ELSE IF KeywordsMissing(r.keywords)
                  THEN [error |-> "ValueError", config |-> NoConfig]
             ELSE IF ~r.days_valid THEN [error |-> "ValueError", config |-> NoConfig]
             ELSE [error |-> "",
                   config |-> [journals |-> js.journals,
                               keywords |-> StripKeywords(r.keywords),
                               search_days |-> IF r.has_days THEN r.search_days
                                               ELSE DefaultSearchDays,
                               email |-> r.email]]

---------------------------------------------------------------------------
(* crossref_client.py                                                      *)

ApiMaxRows == 100

DefaultMaxResults == 100

\* decimal digits of a natural number: str(n)
RECURSIVE IntStr(_)
IntStr(n) ==
    LET d == <<"0","1","2","3","4","5","6","7","8","9">>
    IN  IF n < 10 THEN <<d[n + 1]>> ELSE IntStr(n \div 10) \o <<d[(n % 10) + 1]>>

\* f"{n:02d}"
Pad2(n) == IF n < 10 THEN <<"0">> \o IntStr(n) ELSE IntStr(n)

\* a choice of date field that looks at the online date first
DateParts_OnlineFirst(item) ==
    IF item.dates.online.present THEN item.dates.online.parts
    ELSE IF item.dates.print.present THEN item.dates.print.parts
    ELSE IF item.dates.plain.present THEN item.dates.plain.parts
    ELSE <<>>

\* lines 119-124: the date-parts of the first date field present in the item
\* (<<>> when the field has no date-parts or an empty first list)
DateParts(item) ==
    IF item.dates.print.present THEN item.dates.print.parts
    ELSE IF item.dates.online.present THEN item.dates.online.parts
    ELSE IF item.dates.plain.present THEN item.dates.plain.parts
    ELSE <<>>

\* lines 125-132
FormatDate(parts) ==
    IF Len(parts) >= 3
    THEN IntStr(parts[1]) \o <<"-">> \o Pad2(parts[2]) \o <<"-">> \o Pad2(parts[3])
    ELSE IF Len(parts) >= 2 THEN IntStr(parts[1]) \o <<"-">> \o Pad2(parts[2])
    ELSE IF Len(parts) >= 1 THEN IntStr(parts[1])
    ELSE <<>>

\* lines 143-150
RECURSIVE AuthorNames(_)
AuthorNames(authors) ==
    IF authors = <<>> THEN <<>>
    ELSE LET a == Head(authors)
         IN  (IF a.given # <<>> /\ a.family # <<>>
              THEN <<a.given \o <<" ">> \o a.family>>
              ELSE IF a.family # <<>> THEN <<a.family>> ELSE <<>>)
             \o AuthorNames(Tail(authors))

DoiUrlPrefix == <<"h","t","t","p","s",":","/","/","d","o","i",".","o","r","g","/">>

\* _parse_item: <<>> for None, <<paper>> for a Paper.  item.title is titles[0]
\* ("" when the title list is empty or missing)
parse_item(item, fallback_journal) ==
    IF item.title = <<>> THEN <<>>
    ELSE << [title |-> Strip(CollapseWs(SubTags(item.title, 1, <<>>), 1)),
             doi |-> item.DOI,
             url |-> IF item.DOI # <<>> THEN DoiUrlPrefix \o item.DOI ELSE item.URL,
             abstract |-> item.abstract,
             published_date |-> FormatDate(DateParts(item)),
             journal_name |-> IF item.container # <<>> THEN item.container
                              ELSE fallback_journal,
             authors |-> AuthorNames(item.author)] >>

\* line 89: `if paper`, a Paper and not None
IsPaper(parsed) == parsed # <<>>

\* lines 87-90: parse every item of a page, keeping the Papers
ParseItems(items, fallback_journal) ==
    LET kept == SelectSeq([i \in 1..Len(items) |-> parse_item(items[i], fallback_journal)],
                          IsPaper)
    IN  [i \in 1..Len(kept) |-> kept[i][1]]

\* line 64: params["rows"]
Rows(max) == IF max < ApiMaxRows THEN max ELSE ApiMaxRows

\* line 72: the while condition
LoopCondition(ps, max) == Len(ps) < max

\* a break that ignores a page shorter than requested
LastPage_IgnoresShortPage(next_cursor, items, rows) == next_cursor = ""

\* line 94: the break after a page
LastPage(next_cursor, items, rows) == next_cursor = "" \/ Len(items) < rows

\* an except clause that throws away what was fetched before the failure
ExceptBreak_Discard(ps) == <<>>

\* lines 76-78: the except clause prints a warning and breaks; `papers` is kept
ExceptBreak(ps) == ps

\* a return that cuts the list to one page instead of max_results
Truncate_ToPage(ps, max) == SubSeq(ps, 1, IF Len(ps) < Rows(max) THEN Len(ps) ELSE Rows(max))

\* line 98: papers[:max_results]
Truncate(ps, max) == SubSeq(ps, 1, IF Len(ps) < max THEN Len(ps) ELSE max)

---------------------------------------------------------------------------
(* The CrossRef API as the client sees it.  A page is described by          *)
(* [j, n, count, pattern]: the journal, the request number, the number of   *)
(* records and which records carry which title; its records follow from it. *)
(* A page of pattern "listed" carries the list of its records instead.      *)

MaxPages == 4          \* requests per journal the model follows
MaxPageItems == 2      \* records per page when pages are shorter than rows

CursorTokens == <<"c1", "c2", "c3", "c4", "c5", "c6", "c7">>

T_a == <<"a">>
T_b == <<"b">>
T_absA == <<"<","p",">","A",".","<","/","p",">">>

NoDate == [present |-> FALSE, parts |-> <<>>]

PagePatterns == {"hits", "lead_untitled", "hit_miss", "miss_abs"}

\* the title and abstract of record i of a page
RecordTitle(pattern, i) ==
    CASE pattern = "hits" -> T_a
      [] pattern = "lead_untitled" -> IF i = 1 THEN <<>> ELSE T_a
      [] pattern = "hit_miss" -> IF i % 2 = 1 THEN T_a ELSE T_b
      [] OTHER -> T_b

RecordAbstract(pattern, i) ==
    IF pattern = "miss_abs" /\ i % 2 = 0 THEN T_absA ELSE <<>>

RecordDoi(j, n, i) == IntStr(j) \o <<".">> \o IntStr(n) \o <<".">> \o IntStr(i)

\* message.items of the page
ItemsOf(desc) ==
    IF desc.pattern = "listed" THEN desc.records
    ELSE
    [i \in 1..desc.count |->
        [title |-> RecordTitle(desc.pattern, i),
         DOI |-> RecordDoi(desc.j, desc.n, i),
         URL |-> <<>>,
         abstract |-> RecordAbstract(desc.pattern, i),
         container |-> <<>>,
         dates |-> [print |-> NoDate, online |-> NoDate, plain |-> NoDate],
         author |-> <<>>]]

Response(failed, j, n, count, pattern, next) ==
    [failed |-> failed,
     desc |-> [j |-> j, n |-> n, count |-> count, pattern |-> pattern, records |-> <<>>],
     next_cursor |-> next]

\* a page given by the list of its records
ListedResponse(j, n, records, next) ==
    [failed |-> FALSE,
     desc |-> [j |-> j, n |-> n, count |-> Len(records), pattern |-> "listed",
               records |-> records],
     next_cursor |-> next]

\* requests.RequestException: connection error, timeout or raise_for_status()
Failure(j, n) == Response(TRUE, j, n, 0, "hits", "")

\* what the API may answer to request n for journal j: a failure, or a page of
\* 0, 1 or `rows` records with or without a next-cursor
ApiResponses(j, n, rows) ==
    {Failure(j, n)} \cup
    {Response(FALSE, j, n, c, p, nc) :
        c \in {0, 1, rows}, p \in {"hits", "lead_untitled"},
        nc \in {"", CursorTokens[n]}}

\* the same with pages of at most MaxPageItems records (all shorter than rows)
ShortResponses(j, n) ==
    {Failure(j, n)} \cup
    {Response(FALSE, j, n, c, p, nc) :
        c \in 0..MaxPageItems, p \in PagePatterns, nc \in {"", CursorTokens[n]}}

\* a date field of a record: absent, present without date-parts, or present
\* with one to three components
DateAbsent == NoDate
DateEmpty == [present |-> TRUE, parts |-> <<>>]
DateOf(parts) == [present |-> TRUE, parts |-> parts]

PrintDates == {DateAbsent, DateEmpty, DateOf(<<2024>>), DateOf(<<2024, 3>>),
               DateOf(<<2024, 3, 15>>)}
OnlineDates == {DateAbsent, DateEmpty, DateOf(<<2023>>), DateOf(<<2023, 11>>),
                DateOf(<<2023, 11, 5>>)}
PlainDates == {DateAbsent, DateEmpty, DateOf(<<2022>>), DateOf(<<2022, 12>>),
               DateOf(<<2022, 12, 31>>)}

\* titles[0] of a record: none, blank, markup only, markup around text, text
\* with a run of whitespace, plain text
RecordTitles == { <<>>, <<" ">>, <<"<","i",">","<","/","i",">">>,
                  <<"<","i",">","a","<","/","i",">">>,
                  <<"a"," "," ","b">>, T_a }

RawRecord(title, print, online, plain) ==
    [title |-> title, DOI |-> <<"1">>, URL |-> <<>>, abstract |-> <<>>,
     container |-> <<>>,
     dates |-> [print |-> print, online |-> online, plain |-> plain],
     author |-> <<>>]

\* records with every combination of date fields, and records with every title
ParseRecords ==
    { RawRecord(T_a, p, o, q) : p \in PrintDates, o \in OnlineDates, q \in PlainDates }
    \cup { RawRecord(t, DateAbsent, DateAbsent, DateAbsent) : t \in RecordTitles }

MaxParseItems == 1     \* records per page in SpecParse

\* what the API may answer in SpecParse: a failure, or a page of up to
\* MaxParseItems records
ListedResponses(j, n) ==
    {Failure(j, n)} \cup
    {ListedResponse(j, n, rs, nc) :
        rs \in UNION {[1..k -> ParseRecords] : k \in 0..MaxParseItems},
        nc \in {"", CursorTokens[n]}}

---------------------------------------------------------------------------
(* formatter.py                                                            *)

Dash == <<"-">>
Today == <<"Y","Y","Y","Y","-","M","M","-","D","D">>

CsvHeader == << <<"T","i","t","l","e">>,
               <<"J","o","u","r","n","a","l">>,
               <<"P","u","b","l","i","s","h","e","d">>,
               <<"S","u","m","m","a","r","y">>,
               <<"K","e","y","w","o","r","d","s">>,
               <<"L","i","n","k">>,
               <<"A","u","t","h","o","r","s">> >>

\* export_csv lines 154-168: one row per paper
CsvRow(fp) ==
    << fp.paper.title,
       fp.paper.journal_name,
       fp.paper.published_date,
       extract_summary(fp.paper.abstract),
       Join(<<",", " ">>, fp.matched_keywords),
       fp.paper.url,
       Join(<<",", " ">>, fp.paper.authors) >>

export_csv(fps) == <<CsvHeader>> \o [i \in 1..Len(fps) |-> CsvRow(fps[i])]

MdHeading == <<"#"," ","J","o","u","r","n","a","l"," ","C","l","u","b"," ","-"," ","P","a","p","e","r","s"," ","o","f"," ","I","n","t","e","r","e","s","t">>
MdTableHeader == <<"|"," ","#"," ","|"," ","T","i","t","l","e"," ","|"," ","J","o","u","r","n","a","l"," ","|"," ","S","u","m","m","a","r","y"," ","|"," ","K","e","y","w","o","r","d","s"," ","|"," ","L","i","n","k"," ","|">>
MdTableRule == <<"|","-","-","-","|","-","-","-","-","-","-","-","|","-","-","-","-","-","-","-","-","-","|","-","-","-","-","-","-","-","-","-","|","-","-","-","-","-","-","-","-","-","-","|","-","-","-","-","-","-","|">>
MdNoPapers == <<"N","o"," ","p","a","p","e","r","s"," ","m","a","t","c","h","e","d"," ","y","o","u","r"," ","k","e","y","w","o","r","d","s",".">>

\* line 117: keywords_str
MdKeywords(fp) ==
    IF fp.matched_keywords # <<>> THEN Join(<<",", " ">>, fp.matched_keywords) ELSE Dash

\* line 124: link
MdLink(fp) ==
    IF fp.paper.url # <<>>
    THEN <<"[","L","i","n","k","]","(">> \o fp.paper.url \o <<")">>
    ELSE Dash

\* lines 114-127: one table row, "|" escaped in title, summary and journal
MdRow(i, fp) ==
    <<"|", " ">> \o IntStr(i)
    \o <<" ", "|", " ">> \o EscapePipes(fp.paper.title)
    \o <<" ", "|", " ">> \o EscapePipes(fp.paper.journal_name)
    \o <<" ", "|", " ">> \o EscapePipes(extract_summary(fp.paper.abstract))
    \o <<" ", "|", " ">> \o MdKeywords(fp)
    \o <<" ", "|", " ">> \o MdLink(fp)
    \o <<" ", "|">>

\* export_markdown lines 99-131: the lines written (the em dashes of the
\* source are written "-")
export_markdown(fps) ==
    << MdHeading, <<>>,
       <<"*","G","e","n","e","r","a","t","e","d"," ","o","n"," ">> \o Today \o <<" ", "-", " ">> \o IntStr(Len(fps))
         \o <<" ","p","a","p","e","r","(","s",")"," ","f","o","u","n","d","*">>, <<>> >>
    \o (IF fps = <<>> THEN <<MdNoPapers>>
        ELSE <<MdTableHeader, MdTableRule>> \o [i \in 1..Len(fps) |-> MdRow(i, fps[i])])
    \o << <<>> >>

MdSuffix == <<".", "m", "d">>
CsvSuffix == <<".", "c", "s", "v">>

\* a save that leaves the last paper out of the file
save_results_DropLast(fps, output) ==
    LET suffix == IF output.given THEN output.suffix ELSE CsvSuffix
        cut == SubSeq(fps, 1, Len(fps) - 1)
    IN  IF Lower(suffix) = MdSuffix
        THEN [suffix |-> suffix, format |-> "md", content |-> export_markdown(cut)]
        ELSE [suffix |-> IF Lower(suffix) # CsvSuffix THEN CsvSuffix ELSE suffix,
              format |-> "csv", content |-> export_csv(cut)]

\* main.py _save_results lines 124-134: the file written for `fps`
save_results(fps, output) ==
    LET suffix == IF output.given THEN output.suffix ELSE CsvSuffix
    IN  IF Lower(suffix) = MdSuffix
        THEN [suffix |-> suffix, format |-> "md", content |-> export_markdown(fps)]
        ELSE [suffix |-> IF Lower(suffix) # CsvSuffix THEN CsvSuffix ELSE suffix,
              format |-> "csv", content |-> export_csv(fps)]

---------------------------------------------------------------------------
(* main.py: the run, one action per step                                   *)

\* exit_status while main() has not ended
Running == -1

\* a configuration error that ends the process with status 0
ConfigErrorExit_Zero == 1 - 1

\* line 180: sys.exit(1)
ConfigErrorExit == 1

\* lines 175-183: Config.from_yaml, sys.exit(1) on FileNotFoundError / ValueError,
\* then the --days override
LoadConfig ==
    /\ pc = "load_config"
    /\ LET r == from_yaml(raw)
       IN  IF r.error # ""
           THEN /\ config_error' = r.error
                /\ exit_status' = ConfigErrorExit
                /\ pc' = "done"
                /\ UNCHANGED config
           ELSE /\ config' = IF args.days.given
                             THEN [r.config EXCEPT !.search_days = args.days.value]
                             ELSE r.config
                /\ pc' = "fetch"
                /\ UNCHANGED << config_error, exit_status >>
    /\ UNCHANGED << raw, args, jIdx, all_papers, max_results, cursor, papers, fpc,
                    requests, served, fetched, filtered, rIdx, accepted, decisions,
                    final_papers, files >>

\* main.py lines 207-215 and crossref_client.py lines 59-70: the next journal's
\* fetch_recent_papers call starts
FetchStart ==
    /\ pc = "fetch"
    /\ fpc = "idle"
    /\ jIdx <= Len(config.journals)
    /\ papers' = <<>>
    /\ cursor' = "*"
    /\ served' = <<>>
    /\ fpc' = "while"
    /\ UNCHANGED << pc, raw, args, config, config_error, exit_status, jIdx, all_papers,
                    max_results, requests, fetched, filtered, rIdx, accepted,
                    decisions, final_papers, files >>

\* crossref_client.py lines 72-96: one iteration of the while loop, the API
\* answering `resp`
FetchIteration(resp) ==
    /\ pc = "fetch"
    /\ fpc = "while"
    /\ LoopCondition(papers, max_results)
    /\ Len(served) < MaxPages
    /\ requests' = Append(requests, [issn |-> config.journals[jIdx].issn,
                                     cursor |-> cursor,
                                     rows |-> Rows(max_results),
                                     days_back |-> config.search_days])
    /\ served' = Append(served, resp)
    /\ IF resp.failed
       THEN /\ fpc' = "break"
            /\ papers' = ExceptBreak(papers)
            /\ UNCHANGED cursor
       ELSE IF ItemsOf(resp.desc) = <<>>
       THEN /\ fpc' = "break"
            /\ UNCHANGED << papers, cursor >>
       ELSE /\ papers' = papers \o ParseItems(ItemsOf(resp.desc),
                                             config.journals[jIdx].name)
            /\ IF LastPage(resp.next_cursor, ItemsOf(resp.desc), Rows(max_results))
               THEN fpc' = "break" /\ UNCHANGED cursor
               ELSE fpc' = "while" /\ cursor' = resp.next_cursor
    /\ UNCHANGED << pc, raw, args, config, config_error, exit_status, jIdx, all_papers,
                    max_results, fetched, filtered, rIdx, accepted, decisions,
                    final_papers, files >>

\* the API serving pages of any size up to rows
Request ==
    \E resp \in ApiResponses(jIdx, Len(served) + 1, Rows(max_results)) :
        FetchIteration(resp)

\* the API serving short pages only
RequestShort ==
    \E resp \in ShortResponses(jIdx, Len(served) + 1) : FetchIteration(resp)

\* the API serving short pages of records with any title and any date fields
RequestListed ==
    /\ pc = "fetch"
    /\ fpc = "while"
    /\ \E resp \in ListedResponses(jIdx, Len(served) + 1) : FetchIteration(resp)

\* crossref_client.py line 98 and main.py lines 216-221: the loop is left (by a
\* break or by its condition), the truncated list is returned and extended onto
\* all_papers, and main moves to the next journal
FetchReturn ==
    /\ pc = "fetch"
    /\ fpc = "break" \/ (fpc = "while" /\ ~LoopCondition(papers, max_results))
    /\ all_papers' = all_papers \o Truncate(papers, max_results)
    /\ fetched' = Append(fetched, [issn |-> config.journals[jIdx].issn,
                                   served |-> served,
                                   first |-> Len(all_papers) + 1,
                                   n |-> Len(Truncate(papers, max_results))])
    /\ jIdx' = jIdx + 1
    /\ fpc' = "idle"
    /\ UNCHANGED << pc, raw, args, config, config_error, exit_status, max_results,
                    cursor, papers, requests, served, filtered, rIdx, accepted,
                    decisions, final_papers, files >>

\* main.py lines 230-250: every journal is fetched; filter, then either return
\* (nothing matched), take everything (--no-review) or enter _interactive_review
Filter ==
    /\ pc = "fetch"
    /\ fpc = "idle"
    /\ jIdx > Len(config.journals)
    /\ filtered' = filter_papers(all_papers, config.keywords)
    /\ IF filtered' = <<>>
       THEN pc' = "done" /\ exit_status' = 0 /\ UNCHANGED final_papers
       ELSE IF args.no_review
       THEN pc' = "save" /\ final_papers' = filtered' /\ UNCHANGED exit_status
       ELSE pc' = "review" /\ UNCHANGED << final_papers, exit_status >>
    /\ rIdx' = 1
    /\ accepted' = <<>>
    /\ UNCHANGED << raw, args, config, config_error, jIdx, all_papers, max_results,
                    cursor, papers, fpc, requests, served, fetched, decisions, files >>

\* a review that keeps a paper whatever the answer
Decide_KeepAlways(acc, fp, choice) == Append(acc, fp)

\* main.py lines 100-107: what one answer does to `accepted`
Decide(acc, fp, choice) == IF choice = "y" THEN Append(acc, fp) ELSE acc

\* main.py lines 88-107: one pass of the review loop, Prompt.ask returning `choice`
ReviewDecide(choice) ==
    /\ pc = "review"
    /\ rIdx <= Len(filtered)
    /\ decisions' = Append(decisions, choice)
    /\ IF choice = "q"
       THEN pc' = "review_break" /\ UNCHANGED << rIdx, accepted >>
       ELSE /\ accepted' = Decide(accepted, filtered[rIdx], choice)
            /\ rIdx' = rIdx + 1
            /\ UNCHANGED pc
    /\ UNCHANGED << raw, args, config, config_error, exit_status, jIdx, all_papers,
                    max_results, cursor, papers, fpc, requests, served, fetched,
                    filtered, final_papers, files >>

Review == \E choice \in {"y", "n", "q"} : ReviewDecide(choice)

\* main.py lines 70-71, 109-115 and 250: the loop is over (exhausted or left by
\* "q"); `accepted` is returned and becomes final_papers
ReviewReturn ==
    /\ \/ pc = "review" /\ rIdx > Len(filtered)
       \/ pc = "review_break"
    /\ final_papers' = accepted
    /\ pc' = "save"
    /\ UNCHANGED << raw, args, config, config_error, exit_status, jIdx, all_papers,
                    max_results, cursor, papers, fpc, requests, served, fetched,
                    filtered, rIdx, accepted, decisions, files >>

\* main.py lines 252-257: nothing to save, or _save_results writes the file
SaveResults ==
    /\ pc = "save"
    /\ files' = IF final_papers = <<>> THEN files
                ELSE Append(files, save_results(final_papers, args.output))
    /\ pc' = "done"
    /\ exit_status' = 0
    /\ UNCHANGED << raw, args, config, config_error, jIdx, all_papers, max_results,
                    cursor, papers, fpc, requests, served, fetched, filtered, rIdx,
                    accepted, decisions, final_papers >>

---------------------------------------------------------------------------
(* Inputs                                                                  *)

BoundedSeqs(S, n) == UNION {[1..k -> S] : k \in 0..n}

NoOutput == [given |-> FALSE, suffix |-> <<>>]
Output(suffix) == [given |-> TRUE, suffix |-> suffix]
NoDays == [given |-> FALSE, value |-> 0]

Args(no_review, output) == [no_review |-> no_review, output |-> output, days |-> NoDays]

Entry(name, issn) == [has_name |-> TRUE, has_issn |-> TRUE, name |-> name, issn |-> issn]
E1 == Entry(<<"N","1">>, <<"1">>)
E2 == Entry(<<"N","2">>, <<"2">>)
EntryNoIssn == [has_name |-> TRUE, has_issn |-> FALSE, name |-> <<"N","3">>, issn |-> <<>>]
EntryNoName == [has_name |-> FALSE, has_issn |-> TRUE, name |-> <<>>, issn |-> <<"4">>]

\* a configuration file holding a mapping; a missing key reads as the default of
\* raw.get (an empty list, 30 days, no email)
RawMapping(js, kws, days_valid) ==
    [exists |-> TRUE, empty |-> FALSE, journals |-> js, keywords |-> kws,
     has_days |-> FALSE, days_valid |-> days_valid, search_days |-> 0, email |-> <<>>]

RawMissing == [RawMapping(<<>>, <<>>, TRUE) EXCEPT !.exists = FALSE]
RawEmpty == [RawMapping(<<>>, <<>>, TRUE) EXCEPT !.empty = TRUE]

J1 == [name |-> <<"N","1">>, issn |-> <<"1">>]
J2 == [name |-> <<"N","2">>, issn |-> <<"2">>]

ConfigOf(js, kws) ==
    [journals |-> js, keywords |-> kws, search_days |-> DefaultSearchDays, email |-> <<>>]

\* the state of main() before its first statement, except for the inputs
Start(p, r, a, c, m, j, ps, f) ==
    /\ pc = p
    /\ raw = r
    /\ args = a
    /\ config = c
    /\ config_error = ""
    /\ exit_status = Running
    /\ jIdx = j
    /\ all_papers = ps
    /\ max_results = m
    /\ cursor = "*"
    /\ papers = <<>>
    /\ fpc = "idle"
    /\ requests = <<>>
    /\ served = <<>>
    /\ fetched = <<>>
    /\ filtered = f
    /\ rIdx = 1
    /\ accepted = <<>>
    /\ decisions = <<>>
    /\ final_papers = <<>>
    /\ files = <<>>

---------------------------------------------------------------------------
(* Spec: a whole run of main(), the API serving short pages                 *)

PipelineConfigs ==
    { RawMissing, RawEmpty,
      RawMapping(<<E1, E2>>, <<T_a>>, TRUE),
      RawMapping(<<E1>>, << <<" ">> >>, TRUE),
      RawMapping(<<E1, E2>>, <<>>, TRUE),
      RawMapping(<<>>, <<T_a>>, TRUE),
      RawMapping(<<E1, EntryNoIssn>>, <<T_a>>, TRUE),
      RawMapping(<<E1>>, <<T_a>>, FALSE) }

PipelineArgs ==
    { Args(nr, o) : nr \in BOOLEAN, o \in {NoOutput, Output(MdSuffix)} }

Init ==
    \E r \in PipelineConfigs, a \in PipelineArgs :
        Start("load_config", r, a, NoConfig, DefaultMaxResults, 1, <<>>, <<>>)

Next ==
    \/ LoadConfig
    \/ FetchStart
    \/ RequestShort
    \/ FetchReturn
    \/ Filter
    \/ Review
    \/ ReviewReturn
    \/ SaveResults

Spec == Init /\ [][Next]_vars

---------------------------------------------------------------------------
(* SpecFetch: main()'s journal loop around fetch_recent_papers, the API     *)
(* serving pages of up to `rows` records, for several values of max_results *)

MaxResultsChoices == {2, DefaultMaxResults, 250}

InitFetch ==
    \E js \in {<<J1>>, <<J1, J2>>}, m \in MaxResultsChoices :
        Start("fetch", RawMapping(<<>>, <<>>, TRUE), Args(TRUE, NoOutput),
              ConfigOf(js, <<T_a>>), m, 1, <<>>, <<>>)

NextFetch ==
    \/ FetchStart
    \/ Request
    \/ FetchReturn

SpecFetch == InitFetch /\ [][NextFetch]_vars

---------------------------------------------------------------------------
(* SpecFilter: filter_papers applied to bounded paper and keyword lists     *)

MaxFilterPapers == 2
MaxKeywords == 2

PaperOf(title, abstract, doi) ==
    [title |-> title, doi |-> doi, url |-> DoiUrlPrefix \o doi, abstract |-> abstract,
     published_date |-> <<>>, journal_name |-> <<"N","1">>, authors |-> <<>>]

FilterPapers ==
    { PaperOf(t, a, <<"1">>) :
        t \in {T_a, <<"A","b">>, T_b},
        a \in {<<>>, <<"a","<","i",">","b">>} }

\* keywords as Config.from_yaml leaves them: stripped and non-empty
FilterKeywords == {T_a, <<"A">>, <<"a","b">>, <<"a"," ","B">>}

InitFilter ==
    \E ps \in BoundedSeqs(FilterPapers, MaxFilterPapers),
       kws \in BoundedSeqs(FilterKeywords, MaxKeywords),
       nr \in BOOLEAN :
        Start("fetch", RawMapping(<<>>, <<>>, TRUE), Args(nr, NoOutput),
              ConfigOf(<<J1>>, kws), DefaultMaxResults, 2, ps, <<>>)

NextFilter == Filter

SpecFilter == InitFilter /\ [][NextFilter]_vars

---------------------------------------------------------------------------
(* SpecReview: _interactive_review over a list of filtered papers           *)

MaxReviewPapers == 4

ReviewPaper(i) == FilteredPaper(PaperOf(T_a, <<>>, IntStr(i)), <<T_a>>)

InitReview ==
    \E n \in 0..MaxReviewPapers :
        /\ Start("review", RawMapping(<<>>, <<>>, TRUE), Args(FALSE, NoOutput),
                 ConfigOf(<<J1>>, <<T_a>>), DefaultMaxResults, 2,
                 [i \in 1..n |-> ReviewPaper(i).paper],
                 [i \in 1..n |-> ReviewPaper(i)])

NextReview ==
    \/ Review
    \/ ReviewReturn

SpecReview == InitReview /\ [][NextReview]_vars

---------------------------------------------------------------------------
(* SpecConfig: Config.from_yaml (and main's handling of its errors) over    *)
(* bounded configuration files                                             *)

MaxCfgJournals == 2
MaxCfgKeywords == 2

CfgEntries == {E1, E2, EntryNoIssn, EntryNoName}
CfgKeywords == {<<>>, <<" ">>, T_a, <<" ", "b", " ">>}

RawConfigs ==
    {RawMissing, RawEmpty} \cup
    { [RawMapping(js, kws, dv) EXCEPT !.has_days = hd, !.search_days = 14] :
        js \in BoundedSeqs(CfgEntries, MaxCfgJournals),
        kws \in BoundedSeqs(CfgKeywords, MaxCfgKeywords),
        dv \in BOOLEAN, hd \in BOOLEAN }

InitConfig ==
    \E r \in RawConfigs, d \in {NoDays, [given |-> TRUE, value |-> 7]} :
        Start("load_config", r, [Args(FALSE, NoOutput) EXCEPT !.days = d], NoConfig,
              DefaultMaxResults, 1, <<>>, <<>>)

NextConfig == LoadConfig

SpecConfig == InitConfig /\ [][NextConfig]_vars

---------------------------------------------------------------------------
(* SpecExport: a run from the filter on with --no-review, over papers and   *)
(* keywords that hold "|" characters                                       *)

MaxExportPapers == 2

T_pipe == <<"a", "|", "b">>

ExportPapers ==
    { [PaperOf(t, a, d) EXCEPT !.journal_name = jn] :
        t \in {T_a, T_pipe},
        a \in {<<>>, <<"a", "|", ".">>},
        d \in {<<"1">>, <<"1", "|", "2">>},
        jn \in {<<"N">>, <<"N", "|">>} }

ExportKeywords == {<<T_a>>, <<T_pipe>>, <<T_a, T_b>>}

ExportOutputs == {NoOutput, Output(MdSuffix), Output(<<".", "M", "D">>),
                  Output(<<".", "t", "x", "t">>)}

InitExport ==
    \E ps \in BoundedSeqs(ExportPapers, MaxExportPapers),
       kws \in ExportKeywords, o \in ExportOutputs :
        Start("fetch", RawMapping(<<>>, <<>>, TRUE), Args(TRUE, o),
              ConfigOf(<<J1>>, kws), DefaultMaxResults, 2, ps, <<>>)

NextExport ==
    \/ Filter
    \/ SaveResults

SpecExport == InitExport /\ [][NextExport]_vars

---------------------------------------------------------------------------
(* SpecSummary: a run from the filter on with --no-review, over papers      *)
(* whose abstracts are missing, blank, markup only, several sentences, or   *)
(* longer than the summary may be                                           *)

MaxSummaryPapers == 2

\* n times the character c
Rep(c, n) == [i \in 1..n |-> c]

SummaryAbstracts ==
    { None, <<>>, <<" ">>, <<" ", "\n", "\t">>,
      <<"<","p",">","<","/","p",">">>,
      <<"a">>,
      <<"A",".">>,
      <<"H","i","!"," ","G","o",".">>,
      <<"e",".","g","."," ","x","?"," "," ","N","o">>,
      <<"<","p",">","A","?","<","/","p",">","B">>,
      Rep("a", SummaryMaxLen - 1),
      Rep("a", SummaryMaxLen),
      Rep("a", SummaryMaxLen - 1) \o <<"!">>,
      Rep("a", SummaryMaxLen) \o <<"?">>,
      <<"<","i",">">> \o Rep("a", SummaryMaxLen + 1) \o <<"."," ","B">>,
      <<"A","."," ">> \o Rep("B", SummaryMaxLen + 1) }

\* outputs written as CSV: the default name, a name with another suffix
SummaryOutputs == {NoOutput, Output(<<".", "t", "x", "t">>)}

InitSummary ==
    \E as \in BoundedSeqs(SummaryAbstracts, MaxSummaryPapers), o \in SummaryOutputs :
        Start("fetch", RawMapping(<<>>, <<>>, TRUE), Args(TRUE, o),
              ConfigOf(<<J1>>, <<T_a>>), DefaultMaxResults, 2,
              [i \in 1..Len(as) |-> PaperOf(T_a, as[i], IntStr(i))], <<>>)

NextSummary ==
    \/ Filter
    \/ SaveResults

SpecSummary == InitSummary /\ [][NextSummary]_vars

---------------------------------------------------------------------------
(* SpecParse: fetch_recent_papers for one journal, the API serving records  *)
(* with every kind of title and every combination of date fields            *)

InitParse ==
    Start("fetch", RawMapping(<<>>, <<>>, TRUE), Args(TRUE, NoOutput),
          ConfigOf(<<J1>>, <<T_a>>), DefaultMaxResults, 1, <<>>, <<>>)

NextParse ==
    \/ FetchStart
    \/ RequestListed
    \/ FetchReturn

SpecParse == InitParse /\ [][NextParse]_vars

---------------------------------------------------------------------------
(* Properties                                                              *)

\* the papers answered "y" among the first n answers, in the order shown
RECURSIVE KeptUpTo(_, _, _)
KeptUpTo(fs, d, n) ==
    IF n = 0 THEN <<>>
    ELSE KeptUpTo(fs, d, n - 1) \o (IF d[n] = "y" THEN <<fs[n]>> ELSE <<>>)

\* the number of answers given before the first "q" (all of them if there is none)
BeforeQuit(d) ==
    LET qs == {i \in 1..Len(d) : d[i] = "q"}
    IN  IF qs = {} THEN Len(d) ELSE (CHOOSE i \in qs : \A j \in qs : i <= j) - 1

ReviewReturned == pc \in {"save", "done"}

\* C1: the review returns exactly the papers answered "keep" before the first
\* "quit", in their original order; a "quit" is the last answer asked for (the
\* paper it was given for and every later paper are never kept), and without a
\* "quit" every paper is asked about.
C1_ReviewReturnsKeptBeforeQuit ==
    /\ Len(decisions) <= Len(filtered)
    /\ \A i \in 1..(Len(decisions) - 1) : decisions[i] # "q"
    /\ ReviewReturned =>
          /\ final_papers = KeptUpTo(filtered, decisions, BeforeQuit(decisions))
          /\ BeforeQuit(decisions) = Len(decisions) => Len(decisions) = Len(filtered)

\* three papers, answers keep then quit: one paper returned, the third not among them
C1_Witness ==
    /\ ReviewReturned
    /\ Len(filtered) = 3
    /\ decisions = <<"y", "q">>
    /\ final_papers = <<filtered[1]>>

\* two characters that are the same letter in either case, or the same character
SameLetter(c, d) ==
    c = d \/ \E n \in 1..26 : {c, d} = {Alphabet[n], AlphabetLower[n]}

\* k occurs in s as a substring, case-insensitively
CaselessOccurs(k, s) ==
    \E off \in 0..(Len(s) - Len(k)) :
        \A i \in 1..Len(k) : SameLetter(k[i], s[off + i])

\* keyword k matches paper p: it occurs in the title or in the stripped abstract
KeywordMatches(k, p) ==
    CaselessOccurs(k, p.title) \/ CaselessOccurs(k, strip_html(p.abstract))

SomeKeywordMatches(p, K) == \E i \in 1..Len(K) : KeywordMatches(K[i], p)

FilterRan == pc # "fetch"

\* C5: with a non-empty keyword list, the papers retained by filter_papers are
\* exactly the papers some keyword matches (case-insensitively, in the title or
\* the markup-stripped abstract), in the order they had in the input.
C5_FilterKeepsExactlyMatches ==
    (FilterRan /\ config.keywords # <<>>) =>
        LET Test(p) == SomeKeywordMatches(p, config.keywords)
        IN  [i \in 1..Len(filtered) |-> filtered[i].paper] = SelectSeq(all_papers, Test)

\* a paper kept only through a case-insensitive hit in its stripped abstract,
\* and another paper dropped
C5_Witness ==
    /\ FilterRan
    /\ config.keywords = << <<"a", " ", "B">> >>
    /\ Len(all_papers) = 2
    /\ Len(filtered) = 1
    /\ filtered[1].paper.title = T_b

\* C6: each retained paper records exactly the configured keywords that match it,
\* all of them and in configured order; the list is non-empty unless no keyword
\* is configured, in which case every paper is retained with an empty list.
C6_MatchedKeywordsExact ==
    FilterRan =>
        /\ \A i \in 1..Len(filtered) :
              LET Hit(k) == KeywordMatches(k, filtered[i].paper)
              IN  /\ filtered[i].matched_keywords = SelectSeq(config.keywords, Hit)
                  /\ config.keywords # <<>> => filtered[i].matched_keywords # <<>>
        /\ config.keywords = <<>> =>
              filtered = [i \in 1..Len(all_papers) |-> FilteredPaper(all_papers[i], <<>>)]

\* a paper matched by two configured keywords, both recorded in order
C6_Witness ==
    /\ FilterRan
    /\ config.keywords = << <<"a", "b">>, T_a >>
    /\ \E i \in 1..Len(filtered) :
          filtered[i].matched_keywords = << <<"a", "b">>, T_a >>

---------------------------------------------------------------------------
(* Properties of the fetch                                                 *)

\* the response logs, one per journal fetched or being fetched, in journal order
Logs ==
    [k \in 1..Len(fetched) |-> fetched[k].served]
    \o (IF pc = "fetch" /\ fpc # "idle" THEN <<served>> ELSE <<>>)

\* the number of requests issued for the journals before journal k
RECURSIVE ReqOffset(_)
ReqOffset(k) == IF k <= 1 THEN 0 ELSE ReqOffset(k - 1) + Len(Logs[k - 1])

\* the i-th request issued for journal k
Req(k, i) == requests[ReqOffset(k) + i]

\* the papers parsed from the first i responses of log L (a failure carries none)
RECURSIVE ParsedThrough(_, _, _)
ParsedThrough(L, name, i) ==
    IF i = 0 THEN <<>>
    ELSE ParsedThrough(L, name, i - 1)
         \o (IF L[i].failed THEN <<>> ELSE ParseItems(ItemsOf(L[i].desc), name))

\* what fetch_recent_papers returned for journal k, as main() added it to all_papers
Returned(k) ==
    SubSeq(all_papers, fetched[k].first, fetched[k].first + fetched[k].n - 1)

FailedAtEnd(L) == L # <<>> /\ L[Len(L)].failed

\* C2: a failed request ends only that journal's loop: what was parsed from the
\* pages fetched before the failure is returned, the run goes on (main() is
\* still fetching, no exit status is set, a next step is possible while a
\* journal is left), and every journal of the list has been requested once the
\* loop over the journals ends.
C2_FailureEndsOnlyThatJournal ==
    /\ \A k \in 1..Len(fetched) :
          FailedAtEnd(fetched[k].served) =>
              /\ Returned(k) = ParsedThrough(fetched[k].served,
                                             config.journals[k].name,
                                             Len(fetched[k].served) - 1)
              /\ pc = "fetch"
              /\ exit_status = Running
    /\ jIdx <= Len(config.journals) => ENABLED (FetchStart \/ Request \/ FetchReturn)
    /\ jIdx > Len(config.journals) =>
          /\ Len(fetched) = Len(config.journals)
          /\ \A k \in 1..Len(config.journals) :
                \E i \in 1..Len(requests) : requests[i].issn = config.journals[k].issn

\* the first journal fails on its second request after a page that gave papers,
\* these papers are in all_papers, and the second journal was fetched after it
C2_Witness ==
    /\ Len(fetched) = 2
    /\ Len(fetched[1].served) = 2
    /\ FailedAtEnd(fetched[1].served)
    /\ fetched[1].n > 0
    /\ ~FailedAtEnd(fetched[2].served)
    /\ fetched[2].n > 0
    /\ Len(all_papers) = fetched[1].n + fetched[2].n

\* the number of records with a title in the first i responses of log L: the
\* number of papers the loop holds after response i
RECURSIVE TitledCount(_, _)
TitledCount(L, i) ==
    IF i = 0 THEN 0
    ELSE TitledCount(L, i - 1)
         + Cardinality({n \in 1..L[i].desc.count :
                           RecordTitle(L[i].desc.pattern, n) # <<>>})

\* one of the four conditions that end the loop holds after response i of log L
StopAfter(L, i) ==
    \/ TitledCount(L, i) >= max_results
    \/ L[i].desc.count = 0
    \/ L[i].next_cursor = ""
    \/ L[i].desc.count < Rows(max_results)

\* C3: for each journal the first request carries the cursor "*" and every later
\* one the next-cursor of the response before it; a further request is issued only
\* when the previous response succeeded and none of the four conditions (maximum
\* reached, empty page, no next-cursor, page shorter than the page size) held after
\* it; and a loop whose requests all succeeded ends only when one of the four holds.
C3_PaginationStopsOnTheFourConditions ==
    /\ Len(Logs) <= Len(config.journals)
    /\ Len(requests) = ReqOffset(Len(Logs) + 1)
    /\ \A k \in 1..Len(Logs) :
          LET L == Logs[k]
          IN  /\ \A i \in 1..Len(L) :
                    /\ Req(k, i).issn = config.journals[k].issn
                    /\ Req(k, i).rows = Rows(max_results)
                    /\ Req(k, i).cursor = IF i = 1 THEN "*" ELSE L[i-1].next_cursor
                    /\ i < Len(L) => ~L[i].failed /\ ~StopAfter(L, i)
              /\ k <= Len(fetched) =>
                    /\ L # <<>>
                    /\ ~FailedAtEnd(L) => StopAfter(L, Len(L))

\* a journal fetched in three requests, ended by a page shorter than the page
\* size that still carried a next-cursor
C3_Witness ==
    \E k \in 1..Len(fetched) :
        LET L == fetched[k].served
        IN  /\ Len(L) = 3
            /\ ~L[3].failed
            /\ L[3].desc.count = 1
            /\ L[3].next_cursor # ""
            /\ fetched[k].n < max_results

\* log L is k full pages, each with a next-cursor, followed by an empty page
FullPagesThenEmpty(L) ==
    /\ L # <<>>
    /\ ~L[Len(L)].failed
    /\ L[Len(L)].desc.count = 0
    /\ \A i \in 1..(Len(L) - 1) :
          /\ ~L[i].failed
          /\ L[i].desc.count = Rows(max_results)
          /\ L[i].next_cursor # ""

\* every record of every page of L has a title
AllTitled(L) ==
    \A i \in 1..Len(L) :
        \A n \in 1..L[i].desc.count : RecordTitle(L[i].desc.pattern, n) # <<>>

\* C4 as stated: k full pages then an empty page, k * page-size below
\* max_results, give exactly k * page-size papers.
C4_Original ==
    \A j \in 1..Len(fetched) :
        LET L == fetched[j].served
        IN  (FullPagesThenEmpty(L) /\ (Len(L) - 1) * Rows(max_results) < max_results)
            => fetched[j].n = (Len(L) - 1) * Rows(max_results)

\* C4 amended: k full pages then an empty page, k * page-size below max_results,
\* give exactly the papers parsed from the records that have a title: k * page-size
\* papers when every record has one.
C4_FullPagesGiveTitledRecords ==
    \A j \in 1..Len(fetched) :
        LET L == fetched[j].served
        IN  (FullPagesThenEmpty(L) /\ (Len(L) - 1) * Rows(max_results) < max_results)
            => /\ fetched[j].n = TitledCount(L, Len(L))
               /\ AllTitled(L) => fetched[j].n = (Len(L) - 1) * Rows(max_results)

\* max_results = 250, two pages of 100 titled records, then an empty page: 200 papers
C4_Witness ==
    /\ max_results = 250
    /\ \E j \in 1..Len(fetched) :
          /\ Len(fetched[j].served) = 3
          /\ FullPagesThenEmpty(fetched[j].served)
          /\ AllTitled(fetched[j].served)
          /\ fetched[j].n = 200

---------------------------------------------------------------------------
(* Properties of configuration loading, the run and the export             *)

ConfigLoaded == pc # "load_config"

\* C7: Config.from_yaml either fails or yields a Config with at least one journal
\* and at least one keyword.
C7_ConfigHasJournalAndKeyword ==
    ConfigLoaded =>
        \/ config_error # ""
        \/ config.journals # <<>> /\ config.keywords # <<>>

\* the configuration file cannot be loaded: it is missing, empty, lacks a journal
\* or a keyword list, has a journal without name or issn, or search_days is no number
LoadFails(r) ==
    \/ ~r.exists
    \/ r.empty
    \/ r.journals = <<>>
    \/ \E i \in 1..Len(r.journals) : ~r.journals[i].has_name \/ ~r.journals[i].has_issn
    \/ r.keywords = <<>>
    \/ ~r.days_valid

\* C8: the process ends with status 1 exactly when configuration loading fails,
\* and then no HTTP request was issued and no file written; every other run ends
\* with status 0, also when nothing was fetched or nothing matched.
C8_ExitStatus ==
    /\ pc # "done" => exit_status = Running
    /\ pc = "done" => exit_status = IF LoadFails(raw) THEN 1 ELSE 0
    /\ LoadFails(raw) => requests = <<>> /\ files = <<>> /\ pc \in {"load_config", "done"}

\* a run ended with status 1 on a configuration file whose keyword list is empty
C8_Witness ==
    /\ pc = "done"
    /\ exit_status = 1
    /\ config_error = "ValueError"
    /\ raw.journals # <<>>
    /\ raw.keywords = <<>>
    /\ requests = <<>>

\* the papers accepted at the end of the run: all filtered papers with
\* --no-review, else those answered "y" before the first "q"
FinalAccepted ==
    IF args.no_review THEN filtered
    ELSE KeptUpTo(filtered, decisions, BeforeQuit(decisions))

\* the review loop is over: every paper was answered, or the last answer is "q"
ReviewEnded ==
    \/ Len(decisions) = Len(filtered)
    \/ decisions # <<>> /\ decisions[Len(decisions)] = "q"

\* file f holds exactly the papers fps, one row each and in order: a CSV file is
\* the header and a row per paper with its title and link, a Markdown file the
\* four heading lines, the two table header lines, a row per paper with its number
\* and link, and a last empty line
HoldsExactly(f, fps) ==
    IF f.format = "csv"
    THEN /\ Len(f.content) = 1 + Len(fps)
         /\ f.content[1] = CsvHeader
         /\ \A i \in 1..Len(fps) :
               /\ f.content[i + 1][1] = fps[i].paper.title
               /\ f.content[i + 1][6] = fps[i].paper.url
    ELSE /\ Len(f.content) = 7 + Len(fps)
         /\ \A i \in 1..Len(fps) :
               /\ Contains(<<"|", " ">> \o IntStr(i) \o <<" ", "|", " ">>
                             \o EscapePipes(fps[i].paper.title), f.content[6 + i])
               /\ Contains(fps[i].paper.url, f.content[6 + i])

\* C9: at most one file is written, and only when every configured journal has
\* been fetched (or has failed), the filter has run and the review has ended or
\* was skipped; it holds exactly the final accepted papers (at least one); while
\* any stage is still running no file exists.
C9_FileWrittenOnceAfterAllStages ==
    /\ Len(files) <= 1
    /\ files # <<>> =>
          /\ pc = "done"
          /\ Len(fetched) = Len(config.journals)
          /\ fpc = "idle"
          /\ LET Test(p) == config.keywords = <<>> \/ SomeKeywordMatches(p, config.keywords)
             IN  [i \in 1..Len(filtered) |-> filtered[i].paper] = SelectSeq(all_papers, Test)
          /\ args.no_review \/ ReviewEnded
          /\ FinalAccepted # <<>>
          /\ HoldsExactly(files[1], FinalAccepted)

\* a review that skipped one paper, kept another and was then left by "q": the one
\* file holds fewer papers than the filter retained
C9_Witness ==
    /\ Len(files) = 1
    /\ ~args.no_review
    /\ decisions = <<"n", "y", "q">>
    /\ Len(filtered) > 3
    /\ Len(FinalAccepted) = 1

\* the "|" of a line that no backslash precedes: its column delimiters
UnescapedPipes(line) ==
    Cardinality({i \in 1..Len(line) : line[i] = "|" /\ (i = 1 \/ line[i-1] # "\\")})

\* C10: in a Markdown export every "|" of a cell's content is written "\|", so
\* every table row has as many unescaped column delimiters as the header row.
C10_MarkdownRowsAligned ==
    \A k \in 1..Len(files) :
        files[k].format = "md" =>
            \A i \in 7..(Len(files[k].content) - 1) :
                UnescapedPipes(files[k].content[i]) = UnescapedPipes(MdTableHeader)

\* the summary cells of the CSV files written, each with the abstract it is
\* the summary of
SummaryCells ==
    { [abstract |-> final_papers[i].paper.abstract, summary |-> files[k].content[i + 1][4]] :
        k \in { n \in 1..Len(files) : files[n].format = "csv" },
        i \in 1..Len(final_papers) }

\* C11: whatever the abstract (None, empty, blank, markup only, or text of any
\* length), the summary extract_summary returns ends in ".", "!" or "?" and has
\* at most 300 characters; for an empty or None abstract it is exactly
\* "No abstract available."
C11_SummaryEndsAndFits ==
    \A c \in SummaryCells :
        /\ c.summary # <<>>
        /\ c.summary[Len(c.summary)] \in {".", "!", "?"}
        /\ Len(c.summary) <= 300
        /\ (c.abstract = None \/ c.abstract = <<>>) => c.summary = NoAbstract

\* a file holds the summary of a None abstract and a summary that was cut to
\* 300 characters
C11_Witness ==
    /\ \E c \in SummaryCells : c.abstract = None /\ c.summary = NoAbstract
    /\ \E c \in SummaryCells :
          /\ c.abstract # None
          /\ Len(c.abstract) > 300
          /\ Len(c.summary) = 300

---------------------------------------------------------------------------
(* Properties of record parsing                                            *)

\* the records of the pages received for one journal, in order
RECURSIVE RawRecords(_, _)
RawRecords(L, i) ==
    IF i = 0 THEN <<>>
    ELSE RawRecords(L, i - 1) \o (IF L[i].failed THEN <<>> ELSE ItemsOf(L[i].desc))

\* a record that carries a title (a first entry of its title list that is not "")
HasTitle(r) == r.title # <<>>

\* the titled records of journal k's pages
Titled(k) == SelectSeq(RawRecords(fetched[k].served, Len(fetched[k].served)), HasTitle)

\* the pairs (record, Paper returned for it) of the journals fetched so far
ParsedPairs ==
    UNION { { [record |-> Titled(k)[i], paper |-> all_papers[fetched[k].first + i - 1]] :
                i \in (1..fetched[k].n) \cap DOMAIN Titled(k) } :
            k \in 1..Len(fetched) }

Digits == <<"0","1","2","3","4","5","6","7","8","9">>

\* the number a string of decimal digits writes, -1 if it is not one
RECURSIVE Number(_)
Number(d) ==
    IF d = <<>> THEN -1
    ELSE IF \E c \in 1..Len(d) : \A n \in 1..10 : Digits[n] # d[c] THEN -1
    ELSE LET last == (CHOOSE n \in 1..10 : Digits[n] = d[Len(d)]) - 1
         IN  IF Len(d) = 1 THEN last
             ELSE 10 * Number(SubSeq(d, 1, Len(d) - 1)) + last

\* the first date field the record carries, in the order print, online, plain
FirstAvailable(dates) ==
    IF dates.print.present THEN dates.print
    ELSE IF dates.online.present THEN dates.online
    ELSE dates.plain

\* d writes the date components `parts`: YYYY-MM-DD for three, YYYY-MM for two,
\* YYYY for one, nothing for none
WritesDate(d, parts) ==
    CASE Len(parts) = 3 ->
            /\ Len(d) = 10 /\ d[5] = "-" /\ d[8] = "-"
            /\ Number(SubSeq(d, 1, 4)) = parts[1]
            /\ Number(SubSeq(d, 6, 7)) = parts[2]
            /\ Number(SubSeq(d, 9, 10)) = parts[3]
      [] Len(parts) = 2 ->
            /\ Len(d) = 7 /\ d[5] = "-"
            /\ Number(SubSeq(d, 1, 4)) = parts[1]
            /\ Number(SubSeq(d, 6, 7)) = parts[2]
      [] Len(parts) = 1 -> Len(d) = 4 /\ Number(d) = parts[1]
      [] OTHER -> d = <<>>

\* C12: the published date of a Paper is made from the first date field its
\* record carries, in the order print, online, plain (a field carried is the one
\* taken, also when it holds no date-parts), and is written by the number of
\* components: three give YYYY-MM-DD, two YYYY-MM, one YYYY, none the empty
\* string; [2024, 3, 15] gives "2024-03-15", [2024, 3] "2024-03", [2024] "2024"
C12_DateFromFirstFieldByComponents ==
    \A pr \in ParsedPairs :
        LET parts == FirstAvailable(pr.record.dates).parts
            d == pr.paper.published_date
        IN  /\ WritesDate(d, parts)
            /\ parts = <<2024, 3, 15>> => d = <<"2","0","2","4","-","0","3","-","1","5">>
            /\ parts = <<2024, 3>> => d = <<"2","0","2","4","-","0","3">>
            /\ parts = <<2024>> => d = <<"2","0","2","4">>

\* a record without a print date, with an online date of three components and
\* a plain date, was parsed: its Paper carries the online date
C12_Witness ==
    \E pr \in ParsedPairs :
        /\ ~pr.record.dates.print.present
        /\ pr.record.dates.online = DateOf(<<2023, 11, 5>>)
        /\ pr.record.dates.plain = DateOf(<<2022, 12>>)
        /\ pr.paper.published_date = <<"2","0","2","3","-","1","1","-","0","5">>

\* C13: every Paper fetch_recent_papers returned has a non-empty title: a record
\* is either rejected or gives a Paper whose title, markup stripped and
\* whitespace collapsed, is not the empty string
C13_ReturnedTitlesNonEmpty ==
    \A i \in 1..Len(all_papers) : all_papers[i].title # <<>>

=============================================================================
